---- MODULE Spec2Model ----
(***************************************************************************)
(* The libutil filesystem abstraction of xcbuild: the in-memory backend    *)
(* (MemoryFilesystem) and the physical backend (DefaultFilesystem) over a  *)
(* model of the POSIX host.                                                *)
(*                                                                         *)
(* Strings are sequences of one-character strings, so that path            *)
(* normalisation, find/substr and the construction of reported names are   *)
(* computed, not assumed.  Vectors are sequences; a pointer to an Entry is *)
(* the sequence of child indices that leads from the root to it.           *)
(***************************************************************************)
EXTENDS Integers, Sequences, FiniteSets, TLC

VARIABLES
    backend,    \* which Filesystem implementation the driver constructed
    _root,      \* MemoryFilesystem::_root
    host,       \* the host's directory tree (physical backend)
    call,       \* the operation last invoked, with its arguments
    result,     \* what that operation returned and wrote to its out-parameters
    current,    \* DefaultFilesystem::createDirectory: the local current
    create,     \* DefaultFilesystem::createDirectory: the local stack create
    before,     \* the tree as it was when the call was made
    handles,    \* every FILE* and DIR* the running call opened, with its closes
    frames,     \* the activations of the running call, followed step by step
    umask,      \* the file mode creation mask of the process
    threads,    \* the threads inside DefaultFilesystem::createDirectory
    made        \* the modes of the directories the host made

vars == <<backend, _root, host, call, result, current, create, before,
          handles, frames, umask, threads, made>>

\* what the calls that run to their end in one step leave alone
stepwise == <<handles, frames, umask, threads, made>>

(***************************************************************************)
(* Bounds of the model.                                                    *)
(***************************************************************************)
\* offsets and lengths passed to read range over 0..MaxArg
MaxArg == 2

\* entries a tree holds besides its root
MaxEntries == 3

\* turns of the ascent loop of the physical createDirectory that are followed
MaxStack == 4

\* symbolic links the host follows in one path resolution before ELOOP
MaxHops == 2

\* values an out-of-bounds byte read may produce
Garbage == {9}

\* std::string::npos
npos == -1

\* ext::nullopt for the length argument of read
nullopt == -1

\* a null Entry pointer: no child has index 0
nullptr == <<0>>

(***************************************************************************)
(* Strings.                                                                *)
(***************************************************************************)
Slash == "/"

\* the paths handed to the operations
Paths ==
    { <<"/">>,
      <<"/", "a">>,
      <<"/", "b">>,
      <<"/", "a", "/", "a">>,
      <<"/", "a", "/", "a", "/", "a">>,
      <<"/", "a", "/", "/", "b">> }

\* the targets handed to writeSymbolicLink
Targets == { <<"/", "a">> }

\* where the host puts a new entry in a directory's readdir order
Slots == {0, 1}

\* the byte vectors handed to write
Contents == { <<>>, <<1>>, <<2, 3>> }

Min(S) == CHOOSE x \in S : \A y \in S : x <= y

\* std::string::find(ch, start): 0-based position, or npos
Find(s, ch, start) ==
    LET hits == { i \in start .. (Len(s) - 1) : s[i + 1] = ch }
    IN  IF hits = {} THEN npos ELSE Min(hits)

\* std::string::substr(start, end - start), where end may be npos
Substr(s, start, end) ==
    IF end = npos THEN SubSeq(s, start + 1, Len(s))
    ELSE SubSeq(s, start + 1, end)

\* the components of a path, split at every '/'
RECURSIVE Split(_)
Split(s) ==
    LET end == Find(s, Slash, 0)
    IN  IF end = npos THEN <<s>>
        ELSE <<Substr(s, 0, end)>> \o Split(Substr(s, end + 1, npos))

\* lexical resolution of "", "." and ".." over the components of an absolute path
RECURSIVE Resolve(_, _)
Resolve(components, stack) ==
    IF components = <<>> THEN stack
    ELSE LET c == Head(components)
         IN  IF c = <<>> \/ c = <<".">> THEN Resolve(Tail(components), stack)
             ELSE IF c = <<".", ".">>
                  THEN Resolve(Tail(components),
                               IF stack = <<>> THEN stack
                               ELSE SubSeq(stack, 1, Len(stack) - 1))
                  ELSE Resolve(Tail(components), Append(stack, c))

RECURSIVE Join(_)
Join(components) ==
    IF components = <<>> THEN <<>>
    ELSE <<Slash>> \o Head(components) \o Join(Tail(components))

\* FSUtil::NormalizePath, for the absolute paths WalkPath hands it
NormalizePath(path) ==
    IF path = <<>> THEN <<>>
    ELSE LET stack == Resolve(Split(path), <<>>)
         IN  IF stack = <<>> THEN <<Slash>> ELSE Join(stack)

(***************************************************************************)
(* MemoryFilesystem::Entry.                                                *)
(***************************************************************************)
File(name, contents) ==
    [name |-> name, type |-> "File", contents |-> contents, children |-> <<>>]

Directory(name, children) ==
    [name |-> name, type |-> "Directory", contents |-> <<>>, children |-> children]

\* the Entry a pointer designates
RECURSIVE Get(_, _)
Get(root, ptr) ==
    IF ptr = <<>> THEN root
    ELSE Get(root.children[Head(ptr)], Tail(ptr))

\* the tree with the Entry a pointer designates replaced
RECURSIVE Put(_, _, _)
Put(root, ptr, entry) ==
    IF ptr = <<>> THEN entry
    ELSE [root EXCEPT !.children[Head(ptr)] = Put(@, Tail(ptr), entry)]

\* Entry::child: the first child with the name, or nullptr
child(root, dir, name) ==
    LET children == Get(root, dir).children
        hits == { i \in 1 .. Len(children) : children[i].name = name }
    IN  IF hits = {} THEN nullptr ELSE Append(dir, Min(hits))

\* an insertion at the front of the children of the directory parent points to
EmplaceFront(root, parent, entry) ==
    LET dir == Get(root, parent)
    IN  Put(root, parent, [dir EXCEPT !.children = <<entry>> \o @])

\* children->emplace_back(entry) on the directory parent points to
EmplaceBack(root, parent, entry) ==
    LET dir == Get(root, parent)
    IN  Put(root, parent, [dir EXCEPT !.children = Append(@, entry)])

\* children->erase(remove_if(name matches)) on the directory parent points to
EraseNamed(root, parent, name) ==
    LET dir == Get(root, parent)
        keep(e) == e.name # name
    IN  Put(root, parent, [dir EXCEPT !.children = SelectSeq(@, keep)])

(***************************************************************************)
(* The visitors the MemoryFilesystem methods hand to WalkPath.  Each takes *)
(* the tree, the parent pointer, the component name and the entry pointer, *)
(* and yields the tree after it ran, the pointer it returns and the value  *)
(* it stored through its out-parameter.                                    *)
(***************************************************************************)
Visited(root, next, out) == [root |-> root, next |-> next, out |-> out, crashed |-> FALSE]

Crashed(root) == [root |-> root, next |-> nullptr, out |-> <<>>, crashed |-> TRUE]

exists_cb(root, parent, name, entry, a) == Visited(root, entry, a.out)

isFile_cb(root, parent, name, entry, a) ==
    IF entry # nullptr /\ Get(root, entry).type # "File"
    THEN Visited(root, nullptr, a.out)
    ELSE Visited(root, entry, a.out)

isDirectory_cb(root, parent, name, entry, a) ==
    IF entry # nullptr /\ Get(root, entry).type # "Directory"
    THEN Visited(root, nullptr, a.out)
    ELSE Visited(root, entry, a.out)

\* createFile that empties an existing file, as opening it for writing would
createFile_cb_truncating(root, parent, name, entry, a) ==
    IF entry # nullptr
    THEN IF Get(root, entry).type = "File"
         THEN Visited(Put(root, entry, [Get(root, entry) EXCEPT !.contents = <<>>]),
                      entry, a.out)
         ELSE Visited(root, nullptr, a.out)
    ELSE LET added == EmplaceBack(root, parent, File(name, <<>>))
         IN  Visited(added, Append(parent, Len(Get(added, parent).children)), a.out)

createFile_cb(root, parent, name, entry, a) ==
    IF entry # nullptr
    THEN IF Get(root, entry).type = "File"
         THEN Visited(root, entry, a.out)
         ELSE Visited(root, nullptr, a.out)
    ELSE LET added == EmplaceBack(root, parent, File(name, <<>>))
         IN  Visited(added, Append(parent, Len(Get(added, parent).children)), a.out)

\* the vector(from.begin() + offset, from.begin() + end) of read: defined only
\* for 0 <= offset <= end <= size; a.ub picks what the build does otherwise
\* (-1: the process dies; a byte: what each position past the buffer reads as)
Window(from, offset, end, ub) ==
    IF end < 0 \/ end < offset THEN <<"crash">>
    ELSE IF end <= Len(from) THEN <<"ok", SubSeq(from, offset + 1, end)>>
    ELSE IF ub = -1 THEN <<"crash">>
    ELSE <<"ok", [i \in 1 .. (end - offset) |->
                    IF offset + i <= Len(from) THEN from[offset + i] ELSE ub]>>

\* read whose window ends at length instead of offset + length
read_cb_endAtLength(root, parent, name, entry, a) ==
    IF entry = nullptr \/ Get(root, entry).type # "File"
    THEN Visited(root, nullptr, a.out)
    ELSE LET from == Get(root, entry).contents
         IN  IF a.offset = 0 /\ a.length = nullopt
             THEN Visited(root, entry, from)
             ELSE LET end == IF a.length # nullopt THEN a.length
                             ELSE Len(from) - a.offset
                      w == Window(from, a.offset, end, a.ub)
                  IN  IF w[1] = "crash" THEN Crashed(root)
                      ELSE Visited(root, entry, w[2])

read_cb(root, parent, name, entry, a) ==
    IF entry = nullptr \/ Get(root, entry).type # "File"
    THEN Visited(root, nullptr, a.out)
    ELSE LET from == Get(root, entry).contents
         IN  IF a.offset = 0 /\ a.length = nullopt
             THEN Visited(root, entry, from)
             ELSE LET end == IF a.length # nullopt THEN a.offset + a.length
                             ELSE Len(from) - a.offset
                      w == Window(from, a.offset, end, a.ub)
                  IN  IF w[1] = "crash" THEN Crashed(root)
                      ELSE Visited(root, entry, w[2])

\* write that overwrites in place without truncating an existing file
write_cb_untruncated(root, parent, name, entry, a) ==
    IF entry # nullptr
    THEN IF Get(root, entry).type = "File"
         THEN Visited(Put(root, entry,
                          [Get(root, entry) EXCEPT
                              !.contents = a.contents \o SubSeq(@, Len(a.contents) + 1, Len(@))]),
                      entry, a.out)
         ELSE Visited(root, nullptr, a.out)
    ELSE LET added == EmplaceBack(root, parent, File(name, a.contents))
         IN  Visited(added, Append(parent, Len(Get(added, parent).children)), a.out)

\* write that adds a new file even where one with the name exists
write_cb_appending(root, parent, name, entry, a) ==
    IF entry # nullptr /\ Get(root, entry).type # "File"
    THEN Visited(root, nullptr, a.out)
    ELSE LET added == EmplaceBack(root, parent, File(name, a.contents))
         IN  Visited(added, Append(parent, Len(Get(added, parent).children)), a.out)

write_cb(root, parent, name, entry, a) ==
    IF entry # nullptr
    THEN IF Get(root, entry).type = "File"
         THEN Visited(Put(root, entry, [Get(root, entry) EXCEPT !.contents = a.contents]),
                      entry, a.out)
         ELSE Visited(root, nullptr, a.out)
    ELSE LET added == EmplaceBack(root, parent, File(name, a.contents))
         IN  Visited(added, Append(parent, Len(Get(added, parent).children)), a.out)

\* removeFile that erases whatever entry has the name
removeFile_cb_anyType(root, parent, name, entry, a) ==
    IF entry # nullptr
    THEN Visited(EraseNamed(root, parent, name), parent, a.out)
    ELSE Visited(root, nullptr, a.out)

removeFile_cb(root, parent, name, entry, a) ==
    IF entry # nullptr
    THEN IF Get(root, entry).type = "File"
         THEN Visited(EraseNamed(root, parent, name), parent, a.out)
         ELSE Visited(root, nullptr, a.out)
    ELSE Visited(root, nullptr, a.out)

\* createDirectory that adds a directory without looking at the entry found
createDirectory_cb_blind(root, parent, name, entry, a) ==
    IF entry # nullptr /\ Get(root, entry).type # "Directory"
    THEN Visited(root, nullptr, a.out)
    ELSE IF name = <<>> THEN Visited(root, entry, a.out)
    ELSE LET added == EmplaceBack(root, parent, Directory(name, <<>>))
         IN  Visited(added, Append(parent, Len(Get(added, parent).children)), a.out)

createDirectory_cb(root, parent, name, entry, a) ==
    IF entry # nullptr
    THEN IF Get(root, entry).type = "Directory"
         THEN Visited(root, entry, a.out)
         ELSE Visited(root, nullptr, a.out)
    ELSE LET added == EmplaceBack(root, parent, Directory(name, <<>>))
         IN  Visited(added, Append(parent, Len(Get(added, parent).children)), a.out)

\* ext::optional<std::string>
None == [has |-> FALSE, value |-> <<>>]
Some(v) == [has |-> TRUE, value |-> v]

\* a reported name that carries the separator even without a subpath
Relative_rooted(subpath, name) ==
    IF subpath.has THEN subpath.value \o <<Slash>> \o name ELSE <<Slash>> \o name

\* subpath ? *subpath + "/" + name : name
Relative(subpath, name) ==
    IF subpath.has THEN subpath.value \o <<Slash>> \o name ELSE name

\* an enumeration that descends into a subdirectory right after reporting it
RECURSIVE depthFirst(_, _, _, _)
depthFirst(subpath, entry, recursive, i) ==
    IF i > Len(entry.children) THEN <<>>
    ELSE LET c == entry.children[i]
         IN  <<Relative(subpath, c.name)>>
             \o (IF recursive /\ c.type = "Directory"
                 THEN depthFirst(Some(Relative(subpath, c.name)), c, recursive, 1)
                 ELSE <<>>)
             \o depthFirst(subpath, entry, recursive, i + 1)

process_depthFirst(subpath, entry, recursive) == depthFirst(subpath, entry, recursive, 1)

\* the process lambda of MemoryFilesystem::readDirectory: the names handed to cb,
\* in the order of the calls
RECURSIVE process(_, _, _)
RECURSIVE processSubdirectories(_, _, _, _)
process(subpath, entry, recursive) ==
    [i \in 1 .. Len(entry.children) |-> Relative(subpath, entry.children[i].name)]
    \o (IF recursive THEN processSubdirectories(subpath, entry, recursive, 1) ELSE <<>>)

processSubdirectories(subpath, entry, recursive, i) ==
    IF i > Len(entry.children) THEN <<>>
    ELSE LET c == entry.children[i]
         IN  (IF c.type = "Directory"
              THEN process(Some(Relative(subpath, c.name)), c, recursive)
              ELSE <<>>)
             \o processSubdirectories(subpath, entry, recursive, i + 1)

readDirectory_cb(root, parent, name, entry, a) ==
    IF entry # nullptr /\ Get(root, entry).type = "Directory"
    THEN Visited(root, entry, process(None, Get(root, entry), a.recursive))
    ELSE Visited(root, nullptr, a.out)

\* removeDirectory that erases a directory whether or not it has children
removeDirectory_cb_unconditional(root, parent, name, entry, a) ==
    IF entry # nullptr /\ Get(root, entry).type = "Directory"
    THEN Visited(EraseNamed(root, parent, name), parent, a.out)
    ELSE Visited(root, nullptr, a.out)

\* removeDirectory that empties a directory and leaves the directory itself
removeDirectory_cb_emptying(root, parent, name, entry, a) ==
    IF entry # nullptr /\ Get(root, entry).type = "Directory"
    THEN IF ~a.recursive /\ Get(root, entry).children # <<>>
         THEN Visited(root, nullptr, a.out)
         ELSE Visited(Put(root, entry, [Get(root, entry) EXCEPT !.children = <<>>]),
                      parent, a.out)
    ELSE Visited(root, nullptr, a.out)

removeDirectory_cb(root, parent, name, entry, a) ==
    IF entry # nullptr /\ Get(root, entry).type = "Directory"
    THEN IF ~a.recursive /\ Get(root, entry).children # <<>>
         THEN Visited(root, nullptr, a.out)
         ELSE Visited(EraseNamed(root, parent, name), parent, a.out)
    ELSE Visited(root, nullptr, a.out)

cb(root, parent, name, entry, a) ==
    CASE a.op = "exists" -> exists_cb(root, parent, name, entry, a)
      [] a.op = "isFile" -> isFile_cb(root, parent, name, entry, a)
      [] a.op = "isDirectory" -> isDirectory_cb(root, parent, name, entry, a)
      [] a.op = "createFile" -> createFile_cb(root, parent, name, entry, a)
      [] a.op = "read" -> read_cb(root, parent, name, entry, a)
      [] a.op = "write" -> write_cb(root, parent, name, entry, a)
      [] a.op = "removeFile" -> removeFile_cb(root, parent, name, entry, a)
      [] a.op = "createDirectory" -> createDirectory_cb(root, parent, name, entry, a)
      [] a.op = "readDirectory" -> readDirectory_cb(root, parent, name, entry, a)
      [] a.op = "removeDirectory" -> removeDirectory_cb(root, parent, name, entry, a)

(***************************************************************************)
(* WalkPath.  The outcome of a call is a record: how it ended (returned or *)
(* crashed), the value returned, the tree afterwards and the out value.    *)
(***************************************************************************)
Outcome(status, ret, root, out) ==
    [status |-> status, ret |-> ret, root |-> root, out |-> out]

\* one turn of the do-while loop of WalkPath, and the turns after it
RECURSIVE WalkLoop(_, _, _, _, _, _, _)
WalkLoop(root, normalized, all, a, cur, start, end) ==
    LET final == (end = npos)
        name == Substr(normalized, start, end)
        found == IF name # <<>> THEN child(root, cur, name) ELSE cur
        v == IF all \/ final THEN cb(root, cur, name, found, a)
             ELSE Visited(root, found, a.out)
    IN  IF v.crashed THEN Outcome("crashed", FALSE, v.root, a.out)
        ELSE IF final THEN Outcome("returned", v.next # nullptr, v.root, v.out)
        ELSE IF v.next = nullptr \/ Get(v.root, v.next).type # "Directory"
             THEN Outcome("returned", FALSE, v.root, v.out)
        ELSE WalkLoop(v.root, normalized, all, a, v.next, end + 1,
                      Find(normalized, Slash, end + 1))

\* WalkPath that walks a relative path from the root
WalkPath_unrooted(root, path, all, a) ==
    LET normalized == NormalizePath(path)
    IN  IF normalized = <<>> THEN Outcome("returned", FALSE, root, a.out)
        ELSE WalkLoop(root, normalized, all, a, <<>>, 0, Find(normalized, Slash, 0))

WalkPath(root, path, all, a) ==
    IF path[1] # Slash THEN Outcome("returned", FALSE, root, a.out)
    ELSE LET normalized == NormalizePath(path)
         IN  IF normalized = <<>> THEN Outcome("returned", FALSE, root, a.out)
             ELSE WalkLoop(root, normalized, all, a, <<>>, 0, Find(normalized, Slash, 0))

(***************************************************************************)
(* The methods of MemoryFilesystem, as functions of the tree.              *)
(***************************************************************************)
Args(op) ==
    [op |-> op, offset |-> 0, length |-> nullopt, contents |-> <<>>,
     recursive |-> FALSE, ub |-> -1, out |-> <<>>]

Memory_exists(root, path) == WalkPath(root, path, FALSE, Args("exists"))

Memory_isFile(root, path) == WalkPath(root, path, FALSE, Args("isFile"))

Memory_isDirectory(root, path) == WalkPath(root, path, FALSE, Args("isDirectory"))

Memory_createFile(root, path) == WalkPath(root, path, FALSE, Args("createFile"))

Memory_read(root, path, offset, length, ub) ==
    WalkPath(root, path, FALSE,
             [Args("read") EXCEPT !.offset = offset, !.length = length, !.ub = ub])

Memory_write(root, contents, path) ==
    WalkPath(root, path, FALSE, [Args("write") EXCEPT !.contents = contents])

Memory_removeFile(root, path) == WalkPath(root, path, FALSE, Args("removeFile"))

\* the backend has no symbolic links: both methods return false
Memory_isSymbolicLink(root, path) == Outcome("returned", FALSE, root, <<>>)

Memory_removeSymbolicLink(root, path) == Outcome("returned", FALSE, root, <<>>)

Memory_readSymbolicLink(root, path) == Outcome("returned", FALSE, root, <<>>)

Memory_writeSymbolicLink(root, target, path) == Outcome("returned", FALSE, root, <<>>)

\* resolvePath: the normalised path of what exists, the empty string otherwise
Memory_resolvePath(root, path) ==
    IF Memory_exists(root, path).ret
    THEN Outcome("returned", TRUE, root, NormalizePath(path))
    ELSE Outcome("returned", FALSE, root, <<>>)

\* createDirectory that hands its visitor the last component only
Memory_createDirectory_leafOnly(root, path, recursive) ==
    WalkPath(root, path, FALSE, [Args("createDirectory") EXCEPT !.recursive = recursive])

\* createDirectory that hands its visitor every component, recursive or not
Memory_createDirectory_everyComponent(root, path, recursive) ==
    WalkPath(root, path, TRUE, [Args("createDirectory") EXCEPT !.recursive = recursive])

Memory_createDirectory(root, path, recursive) ==
    WalkPath(root, path, recursive, [Args("createDirectory") EXCEPT !.recursive = recursive])

Memory_readDirectory(root, path, recursive) ==
    WalkPath(root, path, FALSE, [Args("readDirectory") EXCEPT !.recursive = recursive])

Memory_removeDirectory(root, path, recursive) ==
    WalkPath(root, path, FALSE, [Args("removeDirectory") EXCEPT !.recursive = recursive])

(***************************************************************************)
(* The POSIX host under the physical backend.  Its tree has the shape of   *)
(* the in-memory one, with symbolic links; the order of a directory's      *)
(* children is the order in which readdir returns them.  Every entry is    *)
(* accessible to the process, and the working directory is the root.       *)
(***************************************************************************)
HostFile(name, contents) ==
    [name |-> name, type |-> "File", contents |-> contents, children |-> <<>>,
     target |-> <<>>]

HostLink(name, target) ==
    [name |-> name, type |-> "SymbolicLink", contents |-> <<>>, children |-> <<>>,
     target |-> target]

HostDirectory(name, children) ==
    [name |-> name, type |-> "Directory", contents |-> <<>>, children |-> children,
     target |-> <<>>]

\* the components of a path that name something: empty ones and "." drop out
Components(path) ==
    LET named(c) == c # <<>> /\ c # <<".">>
    IN  SelectSeq(Split(path), named)

Parent(ptr) == IF ptr = <<>> THEN <<>> ELSE SubSeq(ptr, 1, Len(ptr) - 1)

\* pathname resolution.  Namei yields the directory reached before the last
\* component (dir, nullptr when the walk fails), the last component (name) and
\* the entry it names (entry, nullptr when absent).  A symbolic link met before
\* the last component is followed, the last one only when follow is set; hops
\* bounds the links followed in one resolution (ELOOP).
RECURSIVE Namei(_, _, _, _)
RECURSIVE NameiFrom(_, _, _, _, _)
Namei(h, path, follow, hops) ==
    IF path = <<>> THEN [dir |-> nullptr, name |-> <<>>, entry |-> nullptr]
    ELSE NameiFrom(h, <<>>, Components(path), follow, hops)

NameiFrom(h, at, components, follow, hops) ==
    IF components = <<>> THEN [dir |-> Parent(at), name |-> <<>>, entry |-> at]
    ELSE LET c == Head(components)
             last == (Len(components) = 1)
             found == IF c = <<".", ".">> THEN Parent(at) ELSE child(h, at, c)
             missing == [dir |-> nullptr, name |-> c, entry |-> nullptr]
         IN  IF found = nullptr
             THEN IF last THEN [dir |-> at, name |-> c, entry |-> nullptr] ELSE missing
             ELSE IF Get(h, found).type = "SymbolicLink" /\ (follow \/ ~last)
             THEN IF hops = 0 THEN missing
                  ELSE LET t == Namei(h, Get(h, found).target, TRUE, hops - 1)
                       IN  IF t.entry = nullptr
                           THEN IF last THEN [dir |-> at, name |-> c, entry |-> nullptr]
                                ELSE missing
                           ELSE IF last THEN [dir |-> at, name |-> c, entry |-> t.entry]
                           ELSE IF Get(h, t.entry).type # "Directory" THEN missing
                           ELSE NameiFrom(h, t.entry, Tail(components), follow, hops)
             ELSE IF last THEN [dir |-> at, name |-> c, entry |-> found]
             ELSE IF Get(h, found).type # "Directory" THEN missing
             ELSE NameiFrom(h, found, Tail(components), follow, hops)

\* the host adds an entry to a directory at the front (slot 0) or the back of
\* its readdir order
Link(h, dir, entry, slot) ==
    LET d == Get(h, dir)
    IN  Put(h, dir, [d EXCEPT !.children = IF slot = 0 THEN <<entry>> \o @
                                           ELSE Append(@, entry)])

\* the host drops the entry a pointer designates from its directory
Unlink(h, ptr) ==
    LET d == Get(h, Parent(ptr))
        at == ptr[Len(ptr)]
    IN  Put(h, Parent(ptr),
            [d EXCEPT !.children = SubSeq(@, 1, at - 1) \o SubSeq(@, at + 1, Len(@))])

\* a system call's outcome: whether it succeeded and the tree afterwards
Sys(ok, h) == [ok |-> ok, h |-> h]

\* access(path, mode) == 0
access(h, path) == Namei(h, path, TRUE, MaxHops).entry # nullptr

\* lstat(path): the type of the entry itself, "absent" when lstat fails
lstat(h, path) ==
    LET n == Namei(h, path, FALSE, MaxHops)
    IN  IF n.entry = nullptr THEN "absent" ELSE Get(h, n.entry).type

\* open(path, O_WRONLY | O_CREAT | O_TRUNC), which fopen(path, "w") makes: a
\* dangling symbolic link is followed to the file it names
RECURSIVE creat(_, _, _, _)
creat(h, path, slot, hops) ==
    LET n == Namei(h, path, FALSE, MaxHops)
    IN  IF n.dir = nullptr THEN Sys(FALSE, h)
        ELSE IF n.entry = nullptr
             THEN IF n.name = <<".", ".">> THEN Sys(FALSE, h)
                  ELSE Sys(TRUE, Link(h, n.dir, HostFile(n.name, <<>>), slot))
        ELSE LET e == Get(h, n.entry)
             IN  IF e.type = "File"
                 THEN Sys(TRUE, Put(h, n.entry, [e EXCEPT !.contents = <<>>]))
                 ELSE IF e.type = "SymbolicLink" /\ hops > 0
                      THEN creat(h, e.target, slot, hops - 1)
                      ELSE Sys(FALSE, h)

\* the regular file fopen(path, "w") left open: where fwrite's bytes go
Opened(h, path) == Namei(h, path, TRUE, MaxHops).entry

unlink(h, path) ==
    LET n == Namei(h, path, FALSE, MaxHops)
    IN  IF n.entry = nullptr \/ n.entry = <<>> \/ Get(h, n.entry).type = "Directory"
        THEN Sys(FALSE, h)
        ELSE Sys(TRUE, Unlink(h, n.entry))

mkdir(h, path, slot) ==
    LET n == Namei(h, path, FALSE, MaxHops)
    IN  IF n.dir = nullptr \/ n.entry # nullptr \/ n.name = <<>> \/ n.name = <<".", ".">>
        THEN Sys(FALSE, h)
        ELSE Sys(TRUE, Link(h, n.dir, HostDirectory(n.name, <<>>), slot))

rmdir(h, path) ==
    LET n == Namei(h, path, FALSE, MaxHops)
    IN  IF n.entry = nullptr \/ n.entry = <<>> \/ n.name = <<>> \/ n.name = <<".", ".">>
        THEN Sys(FALSE, h)
        ELSE IF Get(h, n.entry).type # "Directory" \/ Get(h, n.entry).children # <<>>
             THEN Sys(FALSE, h)
             ELSE Sys(TRUE, Unlink(h, n.entry))

symlink(h, target, path, slot) ==
    LET n == Namei(h, path, FALSE, MaxHops)
    IN  IF n.dir = nullptr \/ n.entry # nullptr \/ n.name = <<>> \/ n.name = <<".", ".">>
        THEN Sys(FALSE, h)
        ELSE Sys(TRUE, Link(h, n.dir, HostLink(n.name, target), slot))

\* opendir(path): the directory the stream reads, nullptr when opendir fails
opendir(h, path) ==
    LET n == Namei(h, path, TRUE, MaxHops)
    IN  IF n.entry = nullptr \/ Get(h, n.entry).type # "Directory" THEN nullptr
        ELSE n.entry

\* the readdir calls from the start of the stream (after opendir or rewinddir) to
\* its end: the d_name of every entry but "." and ".."
readdir(h, dp) ==
    [i \in 1 .. Len(Get(h, dp).children) |-> Get(h, dp).children[i].name]

(***************************************************************************)
(* The methods of DefaultFilesystem, as functions of the host's tree.      *)
(***************************************************************************)
Default_exists(h, path) == access(h, path)

\* "nullopt" stands for ext::nullopt
Default_type(h, path) ==
    LET t == lstat(h, path)
    IN  IF t = "absent" THEN "nullopt" ELSE t

Default_isWritable(h, path) == access(h, path)

Default_createFile(h, path, slot) ==
    IF Default_isWritable(h, path) THEN Outcome("returned", TRUE, h, <<>>)
    ELSE LET fp == creat(h, path, slot, MaxHops)
         IN  IF ~fp.ok THEN Outcome("returned", FALSE, h, <<>>)
             ELSE Outcome("returned", TRUE, fp.h, <<>>)

\* fopen(path, "rb") of a directory succeeds, and what the seek to its end yields
\* is the host's choice: ub = -1 stands for a size no vector can hold
Default_read(h, path, offset, length, ub) ==
    LET fp == Namei(h, path, TRUE, MaxHops).entry
    IN  IF fp = nullptr THEN Outcome("returned", FALSE, h, <<>>)
        ELSE IF Get(h, fp).type = "Directory"
             THEN IF ub = -1 THEN Outcome("crashed", FALSE, h, <<>>)
                  ELSE Outcome("returned", FALSE, h, <<>>)
        ELSE LET data == Get(h, fp).contents
                 whole == Len(data)
             IN  IF length # nullopt /\ offset + length > whole
                 THEN Outcome("returned", FALSE, h, <<>>)
                 ELSE LET size == IF length # nullopt THEN length ELSE whole
                          buffer == [i \in 1 .. size |->
                                       IF offset + i <= whole THEN data[offset + i] ELSE 0]
                      IN  IF size > 0 /\ offset + size > whole
                          THEN Outcome("returned", FALSE, h, buffer)
                          ELSE Outcome("returned", TRUE, h, buffer)

Default_write(h, contents, path, slot) ==
    LET fp == creat(h, path, slot, MaxHops)
    IN  IF ~fp.ok THEN Outcome("returned", FALSE, h, <<>>)
        ELSE LET at == Opened(fp.h, path)
             IN  Outcome("returned", TRUE,
                         Put(fp.h, at, [Get(fp.h, at) EXCEPT !.contents = contents]), <<>>)

Default_removeFile(h, path) ==
    LET r == unlink(h, path)
    IN  Outcome("returned", r.ok, r.h, <<>>)

Default_writeSymbolicLink(h, target, path, slot) ==
    LET r == symlink(h, target, path, slot)
    IN  Outcome("returned", r.ok, r.h, <<>>)

\* removeSymbolicLink that unlinks whatever the path names
Default_removeSymbolicLink_unlinkAny(h, path) ==
    IF Default_type(h, path) # "nullopt"
    THEN LET r == unlink(h, path)
         IN  Outcome("returned", r.ok, r.h, <<>>)
    ELSE Outcome("returned", TRUE, h, <<>>)

Default_removeSymbolicLink(h, path) ==
    IF Default_type(h, path) = "SymbolicLink"
    THEN LET r == unlink(h, path)
         IN  Outcome("returned", r.ok, r.h, <<>>)
    ELSE Outcome("returned", TRUE, h, <<>>)

\* removeDirectory past its if (recursive) block: rmdir(path) decides
Default_removeDirectory_rmdir(h, path, out) ==
    Outcome("returned", rmdir(h, path).ok, rmdir(h, path).h, out)

\* the lambda removeDirectory hands to readDirectory.  st carries what a callback
\* can change: the host's tree h, the names reported so far out, and the success
\* flag.  lambda_removed is the if around each remove call, given its outcome r;
\* lambda_switch is the switch, given full and its type.
lambda_removed(st, r) ==
    IF r.ret THEN [st EXCEPT !.h = r.root]
    ELSE [st EXCEPT !.h = r.root, !.success = FALSE]

lambda_switch(st, full, type) ==
    CASE type = "nullopt" -> st
      [] type = "File" -> lambda_removed(st, Default_removeFile(st.h, full))
      [] type = "SymbolicLink" -> lambda_removed(st, Default_removeSymbolicLink(st.h, full))
      [] type = "Directory" -> lambda_removed(st, Default_removeDirectory_rmdir(st.h, full, <<>>))

removeDirectory_lambda(st, path, name) ==
    lambda_switch(st, path \o <<Slash>> \o name,
                  Default_type(st.h, path \o <<Slash>> \o name))

\* cb(path) inside process: v.remove tells removeDirectory's lambda from a
\* callback that only records the name
\* a callback that does nothing more once a removal has failed
Default_cb_stopAtFailure(st, name, v) ==
    IF ~st.success THEN st
    ELSE IF v.remove
         THEN removeDirectory_lambda([st EXCEPT !.out = Append(@, name)], v.path, name)
         ELSE [st EXCEPT !.out = Append(@, name)]

Default_cb(st, name, v) ==
    IF v.remove THEN removeDirectory_lambda([st EXCEPT !.out = Append(@, name)], v.path, name)
    ELSE [st EXCEPT !.out = Append(@, name)]

\* the process lambda of DefaultFilesystem::readDirectory, in the steps of its
\* body: opendir (Default_process), the first while loop
\* (Default_reportChildren), the rewinddir (process_rewound), the second while
\* loop (Default_processSubdirectories) with its recursive call
\* (process_descended).
RECURSIVE Default_process(_, _, _, _, _)
RECURSIVE Default_reportChildren(_, _, _, _)
RECURSIVE Default_processSubdirectories(_, _, _, _, _, _)

Default_reportChildren(st, names, relative, v) ==
    IF names = <<>> THEN st
    ELSE Default_reportChildren(Default_cb(st, Relative(relative, Head(names)), v),
                                Tail(names), relative, v)

process_descended(r, names, absolute, relative, recursive, v) ==
    IF ~r.ok THEN r
    ELSE Default_processSubdirectories(r.st, names, absolute, relative, recursive, v)

Default_processSubdirectories(st, names, absolute, relative, recursive, v) ==
    IF names = <<>> THEN [ok |-> TRUE, st |-> st]
    ELSE IF Default_type(st.h, absolute \o <<Slash>> \o Head(names)) = "Directory"
         THEN process_descended(
                  Default_process(st, absolute \o <<Slash>> \o Head(names),
                                  Some(Relative(relative, Head(names))), recursive, v),
                  Tail(names), absolute, relative, recursive, v)
         ELSE Default_processSubdirectories(st, Tail(names), absolute, relative,
                                            recursive, v)

process_rewound(reported, dp, absolute, relative, recursive, v) ==
    IF recursive
    THEN Default_processSubdirectories(reported, readdir(reported.h, dp), absolute,
                                       relative, recursive, v)
    ELSE [ok |-> TRUE, st |-> reported]

process_opened(st, dp, absolute, relative, recursive, v) ==
    IF dp = nullptr THEN [ok |-> FALSE, st |-> st]
    ELSE process_rewound(Default_reportChildren(st, readdir(st.h, dp), relative, v),
                         dp, absolute, relative, recursive, v)

Default_process(st, absolute, relative, recursive, v) ==
    process_opened(st, opendir(st.h, absolute), absolute, relative, recursive, v)

readDirectory_returned(r) == Outcome("returned", r.ok, r.st.h, r.st.out)

Default_readDirectory(h, path, recursive) ==
    readDirectory_returned(
        Default_process([h |-> h, out |-> <<>>, success |-> TRUE], path, None,
                        recursive, [remove |-> FALSE, path |-> path]))

\* removeDirectory after its call of readDirectory, whose result it drops
removeDirectory_swept(swept, path) ==
    IF ~swept.success THEN Outcome("returned", FALSE, swept.h, swept.out)
    ELSE Default_removeDirectory_rmdir(swept.h, path, swept.out)

Default_removeDirectory(h, path, recursive) ==
    IF recursive
    THEN removeDirectory_swept(
             Default_process([h |-> h, out |-> <<>>, success |-> TRUE], path, None,
                             recursive, [remove |-> TRUE, path |-> path]).st,
             path)
    ELSE Default_removeDirectory_rmdir(h, path, <<>>)

\* FSUtil::GetDirectoryName: the prefix before the final '/', empty without one
GetDirectoryName(path) ==
    LET hits == { i \in 1 .. Len(path) : path[i] = Slash }
    IN  IF hits = {} THEN <<>>
        ELSE SubSeq(path, 1, (CHOOSE i \in hits : \A j \in hits : j <= i) - 1)

\* the second while loop of createDirectory: mkdir from the top of the stack down
RECURSIVE createIntermediate(_, _, _)
createIntermediate(h, stack, slot) ==
    IF stack = <<>> THEN Outcome("returned", TRUE, h, <<>>)
    ELSE LET r == mkdir(h, stack[Len(stack)], slot)
         IN  IF ~r.ok THEN Outcome("returned", FALSE, r.h, <<>>)
             ELSE createIntermediate(r.h, SubSeq(stack, 1, Len(stack) - 1), slot)

\* createDirectory(path, false)
Default_createDirectory(h, path, slot) ==
    LET r == mkdir(h, path, slot)
    IN  Outcome("returned", r.ok, r.h, <<>>)

(***************************************************************************)
(* The state machine: a driver constructs one filesystem and calls its     *)
(* operations one after the other.                                         *)
(***************************************************************************)
Call(op, path) ==
    [op |-> op, path |-> path, recursive |-> FALSE, offset |-> 0, length |-> nullopt,
     contents |-> <<>>, target |-> <<>>]

Result(o) == [status |-> o.status, ret |-> o.ret, out |-> o.out]

\* the number of entries of a tree, its root included
RECURSIVE Size(_)
RECURSIVE SizeAll(_, _)
Size(entry) == 1 + SizeAll(entry.children, 1)
SizeAll(children, i) ==
    IF i > Len(children) THEN 0 ELSE Size(children[i]) + SizeAll(children, i + 1)

Fits(o) == Size(o.root) <= MaxEntries + 1

\* no call is in progress and the last result was taken: the driver may call
NoCall == Call("none", <<>>)
NoResult == [status |-> "returned", ret |-> FALSE, out |-> <<>>]
Idle == call = NoCall

Init ==
    /\ backend \in {"memory", "default"}
    /\ _root = Directory(<<Slash>>, <<>>)
    /\ host = HostDirectory(<<Slash>>, <<>>)
    /\ call = NoCall
    /\ result = NoResult
    /\ current = <<>>
    /\ create = <<>>
    /\ before = IF backend = "memory" THEN _root ELSE host
    /\ handles = <<>>
    /\ frames = <<>>
    /\ umask = 0
    /\ threads = <<>>
    /\ made = <<>>

\* a call of the in-memory backend that ran to its end with outcome o
MemoryReturns(c, o) ==
    /\ backend = "memory"
    /\ Idle
    /\ Fits(o)
    /\ call' = c
    /\ _root' = o.root
    /\ result' = Result(o)
    /\ before' = _root
    /\ UNCHANGED <<backend, host, current, create, stepwise>>

\* a call of the physical backend that ran to its end with outcome o
DefaultReturns(c, o) ==
    /\ backend = "default"
    /\ Idle
    /\ Fits(o)
    /\ call' = c
    /\ host' = o.root
    /\ result' = Result(o)
    /\ before' = host
    /\ UNCHANGED <<backend, _root, current, create, stepwise>>

MemoryCreateFile ==
    \E path \in Paths :
        MemoryReturns(Call("createFile", path), Memory_createFile(_root, path))

MemoryRead ==
    \E path \in Paths, offset \in 0 .. MaxArg, length \in {nullopt} \cup (0 .. MaxArg),
       ub \in {-1} \cup Garbage :
        MemoryReturns([Call("read", path) EXCEPT !.offset = offset, !.length = length],
                      Memory_read(_root, path, offset, length, ub))

MemoryWrite ==
    \E path \in Paths, contents \in Contents :
        MemoryReturns([Call("write", path) EXCEPT !.contents = contents],
                      Memory_write(_root, contents, path))

MemoryRemoveFile ==
    \E path \in Paths :
        MemoryReturns(Call("removeFile", path), Memory_removeFile(_root, path))

MemoryRemoveSymbolicLink ==
    \E path \in Paths :
        MemoryReturns(Call("removeSymbolicLink", path), Memory_removeSymbolicLink(_root, path))

MemoryCreateDirectory ==
    \E path \in Paths, recursive \in BOOLEAN :
        MemoryReturns([Call("createDirectory", path) EXCEPT !.recursive = recursive],
                      Memory_createDirectory(_root, path, recursive))

MemoryReadDirectory ==
    \E path \in Paths, recursive \in BOOLEAN :
        MemoryReturns([Call("readDirectory", path) EXCEPT !.recursive = recursive],
                      Memory_readDirectory(_root, path, recursive))

MemoryRemoveDirectory ==
    \E path \in Paths, recursive \in BOOLEAN :
        MemoryReturns([Call("removeDirectory", path) EXCEPT !.recursive = recursive],
                      Memory_removeDirectory(_root, path, recursive))

DefaultCreateFile ==
    \E path \in Paths, slot \in Slots :
        DefaultReturns(Call("createFile", path), Default_createFile(host, path, slot))

DefaultRead ==
    \E path \in Paths, offset \in 0 .. MaxArg, length \in {nullopt} \cup (0 .. MaxArg),
       ub \in {-1} \cup Garbage :
        DefaultReturns([Call("read", path) EXCEPT !.offset = offset, !.length = length],
                       Default_read(host, path, offset, length, ub))

DefaultWrite ==
    \E path \in Paths, contents \in Contents, slot \in Slots :
        DefaultReturns([Call("write", path) EXCEPT !.contents = contents],
                       Default_write(host, contents, path, slot))

DefaultRemoveFile ==
    \E path \in Paths :
        DefaultReturns(Call("removeFile", path), Default_removeFile(host, path))

DefaultWriteSymbolicLink ==
    \E path \in Paths, target \in Targets, slot \in Slots :
        DefaultReturns([Call("writeSymbolicLink", path) EXCEPT !.target = target],
                       Default_writeSymbolicLink(host, target, path, slot))

DefaultRemoveSymbolicLink ==
    \E path \in Paths :
        DefaultReturns(Call("removeSymbolicLink", path),
                       Default_removeSymbolicLink(host, path))

\* createDirectory(path, false) runs to its end in one step
DefaultCreateDirectory ==
    \E path \in Paths, slot \in Slots :
        DefaultReturns(Call("createDirectory", path), Default_createDirectory(host, path, slot))

\* createDirectory(path, true) is entered: current = path and an empty stack
DefaultCreateDirectoryRecursive ==
    \E path \in Paths :
        /\ backend = "default"
        /\ Idle
        /\ call' = [Call("createDirectory", path) EXCEPT !.recursive = TRUE]
        /\ result' = [status |-> "running", ret |-> FALSE, out |-> <<>>]
        /\ current' = path
        /\ create' = <<>>
        /\ before' = host
        /\ UNCHANGED <<backend, _root, host, stepwise>>

\* one turn of its first while loop; the stack grows without limit in the code,
\* and up to MaxStack here
DefaultCreateDirectoryAscend ==
    /\ result.status = "running"
    /\ Default_type(host, call.path) # "Directory"
    /\ Len(create) < MaxStack
    /\ create' = Append(create, current)
    /\ current' = GetDirectoryName(current)
    /\ UNCHANGED <<backend, _root, host, call, result, before, stepwise>>

\* the first loop is left; the second loop runs and the call returns
DefaultCreateDirectoryCreate ==
    \E slot \in Slots :
        LET o == createIntermediate(host, create, slot)
        IN  /\ result.status = "running"
            /\ Default_type(host, call.path) = "Directory"
            /\ host' = o.root
            /\ result' = Result(o)
            /\ current' = <<>>
            /\ create' = <<>>
            /\ UNCHANGED <<backend, _root, call, before, stepwise>>

DefaultReadDirectory ==
    \E path \in Paths, recursive \in BOOLEAN :
        DefaultReturns([Call("readDirectory", path) EXCEPT !.recursive = recursive],
                       Default_readDirectory(host, path, recursive))

DefaultRemoveDirectory ==
    \E path \in Paths, recursive \in BOOLEAN :
        DefaultReturns([Call("removeDirectory", path) EXCEPT !.recursive = recursive],
                       Default_removeDirectory(host, path, recursive))

\* the call has returned and the driver has taken its result
Return ==
    /\ call # NoCall
    /\ result.status = "returned"
    /\ call' = NoCall
    /\ result' = NoResult
    /\ before' = IF backend = "memory" THEN _root ELSE host
    /\ UNCHANGED <<backend, _root, host, current, create, stepwise>>

Next ==
    \/ Return
    \/ MemoryCreateFile
    \/ MemoryRead
    \/ MemoryWrite
    \/ MemoryRemoveFile
    \/ MemoryRemoveSymbolicLink
    \/ MemoryCreateDirectory
    \/ MemoryReadDirectory
    \/ MemoryRemoveDirectory
    \/ DefaultCreateFile
    \/ DefaultRead
    \/ DefaultWrite
    \/ DefaultRemoveFile
    \/ DefaultWriteSymbolicLink
    \/ DefaultRemoveSymbolicLink
    \/ DefaultCreateDirectory
    \/ DefaultCreateDirectoryRecursive
    \/ DefaultCreateDirectoryAscend
    \/ DefaultCreateDirectoryCreate
    \/ DefaultReadDirectory
    \/ DefaultRemoveDirectory

Spec == Init /\ [][Next]_vars

(***************************************************************************)
(* What the claims speak of, read off the trees directly.                  *)
(***************************************************************************)
\* the tree of the backend in use
Tree == IF backend = "memory" THEN _root ELSE host

\* the entry a list of component names leads to from the root, nullptr if none
RECURSIVE Locate(_, _, _)
Locate(root, ptr, names) ==
    IF names = <<>> THEN ptr
    ELSE LET e == Get(root, ptr)
             hits == { i \in 1 .. Len(e.children) : e.children[i].name = Head(names) }
         IN  IF e.type # "Directory" \/ hits = {} THEN nullptr
             ELSE Locate(root, Append(ptr, Min(hits)), Tail(names))

\* the entry path p names: by its normalised components in the in-memory tree,
\* by the host's resolution (following a final link only if follow) otherwise
At(p, follow) ==
    IF backend = "memory" THEN Locate(_root, <<>>, Resolve(Split(p), <<>>))
    ELSE Namei(host, p, follow, MaxHops).entry

TypeAt(p, follow) ==
    IF At(p, follow) = nullptr THEN "absent" ELSE Get(Tree, At(p, follow)).type

\* p names a regular file (through links, on the host) with this content
IsFileWith(p, c) ==
    /\ TypeAt(p, TRUE) = "File"
    /\ Get(Tree, At(p, TRUE)).contents = c

\* read(p, offset, length) on the current tree, for each choice of the build
ReadNow(p, offset, length, ub) ==
    IF backend = "memory" THEN Memory_read(_root, p, offset, length, ub)
    ELSE Default_read(host, p, offset, length, ub)

\* the call in the state returned
Returned(op) == call.op = op /\ result.status = "returned"

(***************************************************************************)
(* C1: on both backends, once write(c, p) has returned true, read(p) with  *)
(* offset 0 and no length returns true and yields exactly c, whatever p    *)
(* held before.                                                            *)
(***************************************************************************)
C1_WriteThenRead ==
    (Returned("write") /\ result.ret) =>
        \A ub \in {-1} \cup Garbage :
            LET r == ReadNow(call.path, 0, nullopt, ub)
            IN  r.status = "returned" /\ r.ret /\ r.out = call.contents

\* a successful write of one byte over what was there
C1_Witness ==
    /\ Returned("write") /\ result.ret
    /\ call.contents = <<1>>
    /\ IsFileWith(call.path, <<1>>)

(***************************************************************************)
(* C2: on both backends, for a file p with content c of length n and every *)
(* 0 <= off <= n and 0 <= len <= n - off, read(p, off, len) returns true   *)
(* and yields the bytes c[off .. off+len), the empty windows included.     *)
(***************************************************************************)
C2_WindowRead ==
    \A c \in Contents :
        (/\ Returned("read") \/ (call.op = "read" /\ result.status = "crashed")
         /\ IsFileWith(call.path, c)
         /\ call.length # nullopt
         /\ call.offset <= Len(c)
         /\ call.length <= Len(c) - call.offset)
        => /\ result.status = "returned"
           /\ result.ret
           /\ result.out = SubSeq(c, call.offset + 1, call.offset + call.length)

\* the second byte of a two-byte file was read
C2_Witness ==
    /\ Returned("read") /\ result.ret
    /\ IsFileWith(call.path, <<2, 3>>)
    /\ call.offset = 1 /\ call.length = 1
    /\ result.out = <<3>>

(***************************************************************************)
(* C3: on both backends, read(p, offset, length) on an existing file of    *)
(* size n returns false whenever offset > n or offset + length > n; it     *)
(* never returns true with bytes from outside the file's content.          *)
(***************************************************************************)
C3_OutOfRangeFails ==
    \A c \in Contents :
        (/\ call.op = "read"
         /\ IsFileWith(call.path, c)
         /\ \/ call.offset > Len(c)
            \/ call.length # nullopt /\ call.offset + call.length > Len(c))
        => result.status = "returned" /\ ~result.ret

(***************************************************************************)
(* C4: on both backends, whenever createFile(p) returns true, p is a       *)
(* regular file right afterwards (isFile(p) in memory, type(p) = file on   *)
(* the host); createFile on an existing directory returns false.           *)
(***************************************************************************)
C4_CreatedIsFile ==
    (Returned("createFile") /\ result.ret) =>
        IF backend = "memory" THEN Memory_isFile(_root, call.path).ret
        ELSE Default_type(host, call.path) = "File"

(***************************************************************************)
(* C5: the physical createDirectory(p, recursive=true) terminates: when p  *)
(* does not exist and a lexical ancestor of p is an existing directory,    *)
(* the ascent loop stops at that ancestor.  As a state predicate: while    *)
(* the call runs, once current names an existing directory the loop's      *)
(* condition is false.                                                     *)
(***************************************************************************)
C5_AscentStops ==
    (result.status = "running" /\ Default_type(host, current) = "Directory")
        => Default_type(host, call.path) = "Directory"

(***************************************************************************)
(* C6: the physical removeDirectory(p, recursive=true) on a directory      *)
(* whose entries can each be removed, subdirectories nested to any depth   *)
(* included, removes everything in it, then p, and returns true.           *)
(***************************************************************************)
C6_RecursiveRemoveSucceeds ==
    [][(/\ backend = "default"
        /\ call'.op = "removeDirectory" /\ call'.recursive
        /\ result'.status = "returned" /\ call = NoCall
        /\ Default_type(host, call'.path) = "Directory"
        /\ Namei(host, call'.path, FALSE, MaxHops).entry # <<>>)
       => (result'.ret /\ Default_type(host', call'.path) = "nullopt")]_vars

(***************************************************************************)
(* C7: on both backends and for every path p, after                        *)
(* removeDirectory(p, recursive=true) returns, exists(p) is false if and   *)
(* only if the call returned true.  Stated here for the calls that return  *)
(* true: then p no longer exists.                                          *)
(***************************************************************************)
C7_RemovedIsGone ==
    (Returned("removeDirectory") /\ call.recursive /\ result.ret) =>
        IF backend = "memory" THEN ~Memory_exists(_root, call.path).ret
        ELSE ~Default_exists(host, call.path)

(***************************************************************************)
(* C8: on both backends and for both values of recursive,                  *)
(* createDirectory(p, recursive) returns true when p already is a          *)
(* directory, and false when p exists as something else; either way the    *)
(* tree is left as it was.                                                 *)
(***************************************************************************)
C8_CreateDirectoryOnExisting ==
    [][(/\ call'.op = "createDirectory"
        /\ result'.status = "returned"
        /\ call = NoCall \/ result.status = "running"
        /\ TypeAt(call'.path, FALSE) # "absent")
       => /\ result'.ret = (TypeAt(call'.path, FALSE) = "Directory")
          /\ _root' = _root
          /\ host' = host]_vars

\* the pointers to the entries under an entry: its children, and theirs when deep
RECURSIVE Under(_, _)
Under(entry, deep) ==
    UNION { {<<i>>} \cup (IF deep THEN { <<i>> \o q : q \in Under(entry.children[i], deep) }
                          ELSE {})
            : i \in 1 .. Len(entry.children) }

\* the names on the way from an entry down to the entry ptr designates
RECURSIVE NamesTo(_, _)
NamesTo(entry, ptr) ==
    IF ptr = <<>> THEN <<>>
    ELSE <<entry.children[Head(ptr)].name>> \o NamesTo(entry.children[Head(ptr)], Tail(ptr))

\* those names with '/' between them
RECURSIVE Slashed(_)
Slashed(names) ==
    IF Len(names) = 1 THEN Head(names)
    ELSE Head(names) \o <<Slash>> \o Slashed(Tail(names))

\* the relative paths of the entries under the directory p names
NamesUnder(p, deep) ==
    { Slashed(NamesTo(Get(Tree, At(p, FALSE)), q)) : q \in Under(Get(Tree, At(p, FALSE)), deep) }

(***************************************************************************)
(* C9: on both backends, readDirectory(p, recursive, cb) on an existing    *)
(* directory p returns true and calls cb exactly once for every descendant *)
(* of p (every immediate child when not recursive) and for nothing else;   *)
(* each name is the path relative to p with '/' between components, never  *)
(* begins with '/', and is never "." or "..".                              *)
(***************************************************************************)
C9_EveryDescendantOnce ==
    (call.op = "readDirectory" /\ TypeAt(call.path, FALSE) = "Directory") =>
        /\ result.status = "returned" /\ result.ret
        /\ { result.out[i] : i \in 1 .. Len(result.out) } = NamesUnder(call.path, call.recursive)
        /\ Len(result.out) = Cardinality(Under(Get(Tree, At(call.path, FALSE)), call.recursive))
        /\ \A i, j \in 1 .. Len(result.out) : result.out[i] = result.out[j] => i = j
        /\ \A i \in 1 .. Len(result.out) :
              /\ result.out[i] # <<>>
              /\ result.out[i][1] # Slash
              /\ result.out[i] # <<".">>
              /\ result.out[i] # <<".", ".">>

\* a recursive enumeration that reported an entry two levels down and a sibling
C9_Witness ==
    /\ Returned("readDirectory") /\ result.ret /\ call.recursive
    /\ backend = "default"
    /\ Len(result.out) = 3
    /\ \E i \in 1 .. 3 : result.out[i] = <<"a", "/", "a">>

(***************************************************************************)
(* C10: in the callback sequence of readDirectory(p, recursive=true, cb),  *)
(* on both backends and for every directory D visited (p and each          *)
(* subdirectory), every immediate child of D is reported before any entry  *)
(* inside a subdirectory of D; a directory's name precedes its contents.   *)
(***************************************************************************)
\* the first k components of a reported name
Prefix(name, k) == SubSeq(Split(name), 1, k)

C10_ChildrenBeforeDescent ==
    (Returned("readDirectory") /\ call.recursive /\ result.ret) =>
        \A i, j \in 1 .. Len(result.out) :
            \A k \in 0 .. Len(result.out[i]) :
                (/\ Len(Split(result.out[i])) = k + 1
                 /\ Len(Split(result.out[j])) > k + 1
                 /\ Prefix(result.out[i], k) = Prefix(result.out[j], k))
                => i < j

\* the root's second child was reported before the first child's content
C10_Witness ==
    /\ Returned("readDirectory") /\ call.recursive /\ result.ret
    /\ call.path = <<Slash>>
    /\ result.out = << <<"a">>, <<"b">>, <<"a", "/", "a">> >>

(***************************************************************************)
(* C11: in every reachable state and for every path p, on both backends:   *)
(* if p is reported as a file, a symbolic link or a directory (isFile,     *)
(* isSymbolicLink, isDirectory in memory; type(p), which looks at the link *)
(* itself, on the host), then exists(p) is true.                           *)
(***************************************************************************)
C11_TypedExists ==
    \A p \in Paths :
        IF backend = "memory"
        THEN (\/ Memory_isFile(_root, p).ret
              \/ Memory_isSymbolicLink(_root, p).ret
              \/ Memory_isDirectory(_root, p).ret) => Memory_exists(_root, p).ret
        ELSE Default_type(host, p) # "nullopt" => Default_exists(host, p)

\* the entry of the in-memory tree as it was before the call that the call's
\* path named, nullptr if none
Was == Locate(before, <<>>, Resolve(Split(call.path), <<>>))

(***************************************************************************)
(* C12: in the in-memory backend createFile never modifies an existing     *)
(* entry: on an existing regular file it returns true and the content is   *)
(* unchanged, on an existing directory it returns false and the directory, *)
(* its children and their order are unchanged.                             *)
(***************************************************************************)
C12_CreateFileKeepsExisting ==
    (backend = "memory" /\ Returned("createFile") /\ Was # nullptr) =>
        /\ result.ret = (Get(before, Was).type = "File")
        /\ _root = before

\* createFile returned true on a file that holds two bytes
C12_Witness ==
    /\ backend = "memory"
    /\ Returned("createFile") /\ result.ret
    /\ Was # nullptr
    /\ IsFileWith(call.path, <<2, 3>>)

\* the same on either backend: on the host the last component is not followed
WasAt == IF backend = "memory" THEN Was ELSE Namei(before, call.path, FALSE, MaxHops).entry

(***************************************************************************)
(* C13: on both backends removeDirectory(p, recursive=false) returns true  *)
(* only if p was a directory with no entries when it was called; on a      *)
(* non-empty directory it returns false and the directory and everything   *)
(* under it are left unchanged.                                            *)
(***************************************************************************)
C13_NonRecursiveRemove ==
    (Returned("removeDirectory") /\ ~call.recursive) =>
        /\ result.ret => /\ WasAt # nullptr
                          /\ Get(before, WasAt).type = "Directory"
                          /\ Get(before, WasAt).children = <<>>
        /\ (/\ WasAt # nullptr
            /\ Get(before, WasAt).type = "Directory"
            /\ Get(before, WasAt).children # <<>>)
           => (~result.ret /\ Tree = before)

\* the removal of a directory that holds an entry was refused
C13_Witness ==
    /\ backend = "memory"
    /\ Returned("removeDirectory") /\ ~call.recursive /\ ~result.ret
    /\ TypeAt(call.path, FALSE) = "Directory"
    /\ Get(Tree, At(call.path, FALSE)).children # <<>>
    /\ call.path # <<Slash>>

\* the type of what the first k of the names led to in a tree
PrefixType(root, names, k) ==
    LET q == Locate(root, <<>>, SubSeq(names, 1, k))
    IN  IF q = nullptr THEN "absent" ELSE Get(root, q).type

\* every entry of old is in new, where it was and as it was, directories having
\* at most gained children after the ones they had
RECURSIVE Preserved(_, _)
Preserved(old, new) ==
    /\ old.name = new.name
    /\ old.type = new.type
    /\ old.contents = new.contents
    /\ Len(old.children) <= Len(new.children)
    /\ \A i \in 1 .. Len(old.children) : Preserved(old.children[i], new.children[i])

(***************************************************************************)
(* C14: in the in-memory backend createDirectory(p, recursive=true) for an *)
(* absolute p returns true exactly when no existing prefix of p is a       *)
(* non-directory; after true every prefix of p, p included, is a directory *)
(* and what existed before is unchanged; after false the tree is unchanged.*)
(***************************************************************************)
C14_RecursiveCreate ==
    (backend = "memory" /\ Returned("createDirectory") /\ call.recursive) =>
        LET names == Resolve(Split(call.path), <<>>)
            missing == { k \in 0 .. Len(names) : PrefixType(before, names, k) = "absent" }
            clear == \A k \in 0 .. Len(names) :
                         PrefixType(before, names, k) \in {"absent", "Directory"}
        IN  /\ result.ret = clear
            /\ result.ret =>
                  /\ \A k \in 0 .. Len(names) : PrefixType(_root, names, k) = "Directory"
                  /\ Preserved(before, _root)
                  /\ Size(_root) = Size(before) + Cardinality(missing)
            /\ ~result.ret => _root = before

\* two levels were created at once below a root that held a file
C14_Witness ==
    /\ backend = "memory"
    /\ Returned("createDirectory") /\ call.recursive /\ result.ret
    /\ Len(Resolve(Split(call.path), <<>>)) = 2
    /\ Size(before) = 2
    /\ before.children[1].type = "File"
    /\ Size(_root) = 4

(***************************************************************************)
(* C15: in the in-memory backend createDirectory(p, recursive=true) is     *)
(* idempotent from any reachable tree: once a call has returned true, the  *)
(* same call made again at once returns true and leaves the tree exactly   *)
(* as the first call left it (same entries, contents and child order).     *)
(***************************************************************************)
C15_RecursiveCreateIdempotent ==
    (backend = "memory" /\ Returned("createDirectory") /\ call.recursive /\ result.ret) =>
        LET again == Memory_createDirectory(_root, call.path, TRUE)
        IN  /\ again.status = "returned"
            /\ again.ret
            /\ again.root = _root

\* the first call created two directories beside an existing entry
C15_Witness ==
    /\ backend = "memory"
    /\ Returned("createDirectory") /\ call.recursive /\ result.ret
    /\ Size(_root) = Size(before) + 2
    /\ Size(before) = 2

(***************************************************************************)
(* C16: on both backends read(p, offset) with no length, on a file with    *)
(* content c of length n and 0 <= offset <= n, returns true and yields the *)
(* window from offset to the end of the file, c[offset .. n).              *)
(***************************************************************************)
C16_ReadToEnd ==
    \A c \in Contents :
        (/\ call.op = "read"
         /\ IsFileWith(call.path, c)
         /\ call.length = nullopt
         /\ call.offset <= Len(c))
        => /\ result.status = "returned"
           /\ result.ret
           /\ result.out = SubSeq(c, call.offset + 1, Len(c))

(***************************************************************************)
(* C17: on both backends removeFile(p) returns true and removes the entry  *)
(* exactly when p is a regular file; when p is absent, a directory or (on  *)
(* the host) a symbolic link, it returns false and the filesystem is       *)
(* unchanged.                                                              *)
(***************************************************************************)
C17_RemoveFileOnlyFiles ==
    Returned("removeFile") =>
        /\ result.ret = (WasAt # nullptr /\ Get(before, WasAt).type = "File")
        /\ result.ret => TypeAt(call.path, FALSE) = "absent"
        /\ ~result.ret => Tree = before

(***************************************************************************)
(* C18: in the in-memory backend createDirectory(p, recursive=false)       *)
(* returns true exactly when the immediate parent of p is an existing      *)
(* directory and p is absent or already a directory; when it creates,      *)
(* exactly one entry, an empty directory at p, is added and no ancestor is *)
(* created; when it returns false the tree is unchanged.  The root, which  *)
(* has no parent, counts as its own parent here, as ".." of "/" does.      *)
(***************************************************************************)
C18_NonRecursiveCreate ==
    (backend = "memory" /\ Returned("createDirectory") /\ ~call.recursive) =>
        LET names == Resolve(Split(call.path), <<>>)
            n == Len(names)
            parent == PrefixType(before, names, IF n = 0 THEN 0 ELSE n - 1)
            leaf == PrefixType(before, names, n)
        IN  /\ result.ret = (parent = "Directory" /\ leaf \in {"absent", "Directory"})
            /\ (result.ret /\ leaf = "absent") =>
                  /\ Preserved(before, _root)
                  /\ Size(_root) = Size(before) + 1
                  /\ Get(_root, Locate(_root, <<>>, names)) = Directory(names[n], <<>>)
            /\ ~result.ret => _root = before

\* one directory was created inside an existing one
C18_Witness ==
    /\ backend = "memory"
    /\ Returned("createDirectory") /\ ~call.recursive /\ result.ret
    /\ Len(Resolve(Split(call.path), <<>>)) = 2
    /\ Size(_root) = Size(before) + 1

(***************************************************************************)
(* C19: on the physical backend removeSymbolicLink(p) unlinks p when p is  *)
(* a symbolic link, and returns true without changing anything when p is   *)
(* absent or is a regular file or a directory; whenever it returns true,   *)
(* type(p) is not symbolicLink afterwards.  On the in-memory backend it    *)
(* always returns false and changes nothing.                               *)
(***************************************************************************)
C19_RemoveSymbolicLink ==
    Returned("removeSymbolicLink") =>
        IF backend = "memory" THEN ~result.ret /\ _root = before
        ELSE /\ lstat(before, call.path) = "SymbolicLink" =>
                   /\ result.ret
                   /\ lstat(host, call.path) = "absent"
                   /\ Size(host) = Size(before) - 1
             /\ lstat(before, call.path) # "SymbolicLink" =>
                   /\ result.ret
                   /\ host = before
             /\ result.ret => Default_type(host, call.path) # "SymbolicLink"

\* a symbolic link was unlinked while a regular file stayed
C19_Witness ==
    /\ backend = "default"
    /\ Returned("removeSymbolicLink") /\ result.ret
    /\ lstat(before, call.path) = "SymbolicLink"
    /\ lstat(host, call.path) = "absent"
    /\ Size(host) = 2
    /\ host.children[1].type = "File"

\* the path of a name reported for the call's path
Full(name) == call.path \o <<Slash>> \o name

(***************************************************************************)
(* C20: on the physical backend recursive removeDirectory is best-effort:  *)
(* a failure to remove one reported entry does not stop the enumeration    *)
(* (every entry reported later is still attempted), and the call returns   *)
(* false if and only if at least one step failed, a per-entry removal or   *)
(* the final removal of p.  A removal that failed shows in the entry still *)
(* being there: every entry is reported once and nothing else removes it.  *)
(***************************************************************************)
C20_BestEffort ==
    (/\ backend = "default"
     /\ Returned("removeDirectory") /\ call.recursive
     /\ lstat(before, call.path) = "Directory") =>
        LET p == Get(before, Namei(before, call.path, FALSE, MaxHops).entry)
            all == { Slashed(NamesTo(p, q)) : q \in Under(p, TRUE) }
            reported == { result.out[i] : i \in 1 .. Len(result.out) }
            failed == { n \in reported : lstat(host, Full(n)) # "absent" }
        IN  /\ reported = all
            /\ Len(result.out) = Cardinality(all)
            /\ \A q \in Under(p, TRUE) :
                  (lstat(host, Full(Slashed(NamesTo(p, q)))) # "absent")
                      = (Get(p, q).type = "Directory" /\ Get(p, q).children # <<>>)
            /\ result.ret = ~(failed # {} \/ lstat(host, call.path) # "absent")

\* the first entry reported could not be removed, the one after it was
C20_Witness ==
    /\ backend = "default"
    /\ Returned("removeDirectory") /\ call.recursive /\ ~result.ret
    /\ call.path # <<Slash>>
    /\ Len(result.out) = 2
    /\ lstat(host, Full(result.out[1])) = "Directory"
    /\ lstat(before, Full(result.out[2])) = "File"
    /\ lstat(host, Full(result.out[2])) = "absent"

\* a tree without the entry the names lead to, and so without what is under it
RECURSIVE Pruned(_, _)
Pruned(entry, names) ==
    LET other(e) == e.name # Head(names)
    IN  IF Len(names) = 1 THEN [entry EXCEPT !.children = SelectSeq(entry.children, other)]
        ELSE [entry EXCEPT !.children =
                 [i \in 1 .. Len(entry.children) |->
                     IF entry.children[i].name = Head(names)
                     THEN Pruned(entry.children[i], Tail(names))
                     ELSE entry.children[i]]]

(***************************************************************************)
(* C21: in the in-memory backend removeDirectory(p, recursive=true) on an  *)
(* existing directory p other than the root returns true and removes       *)
(* exactly p and all of its descendants: afterwards nothing exists at or   *)
(* under p, and every entry outside that subtree, p's siblings, their      *)
(* contents and their order included, is unchanged.                        *)
(***************************************************************************)
C21_RecursiveRemoveExact ==
    (/\ backend = "memory"
     /\ Returned("removeDirectory") /\ call.recursive
     /\ Was # nullptr /\ Was # <<>>
     /\ Get(before, Was).type = "Directory") =>
        /\ result.ret
        /\ ~Memory_exists(_root, call.path).ret
        /\ Locate(_root, <<>>, Resolve(Split(call.path), <<>>)) = nullptr
        /\ _root = Pruned(before, Resolve(Split(call.path), <<>>))

\* a directory with an entry in it was removed and its sibling stayed
C21_Witness ==
    /\ backend = "memory"
    /\ Returned("removeDirectory") /\ call.recursive /\ result.ret
    /\ Was # nullptr /\ Was # <<>>
    /\ Get(before, Was).children # <<>>
    /\ Size(before) = 4
    /\ Size(_root) = 2

\* below an entry no two siblings share a name, no name is empty or holds a
\* '/', and only directories have children
RECURSIVE WellFormed(_)
WellFormed(entry) ==
    /\ entry.type # "Directory" => entry.children = <<>>
    /\ \A i \in 1 .. Len(entry.children) :
          /\ entry.children[i].name # <<>>
          /\ \A k \in 1 .. Len(entry.children[i].name) : entry.children[i].name[k] # Slash
          /\ \A j \in 1 .. Len(entry.children) :
                entry.children[i].name = entry.children[j].name => i = j
          /\ WellFormed(entry.children[i])

IsPrefix(a, b) == Len(a) <= Len(b) /\ SubSeq(b, 1, Len(a)) = a

(***************************************************************************)
(* C23: in the in-memory backend there is no implicit eviction: an entry   *)
(* that exists before an operation still exists with the same type         *)
(* afterwards unless the operation is a successful removeFile on it or a   *)
(* successful removeDirectory on it or on one of its ancestors; a file's   *)
(* content changes only through a successful write to that file's path;    *)
(* probes, read, readDirectory, resolvePath and the symbolic-link          *)
(* operations leave the tree unchanged.                                    *)
(***************************************************************************)
C23_NoImplicitEviction ==
    backend = "memory" =>
        /\ (call # NoCall /\ result.status = "returned") =>
              LET target == Resolve(Split(call.path), <<>>)
              IN  /\ \A q \in Under(before, TRUE) :
                        LET names == NamesTo(before, q)
                            now == Locate(_root, <<>>, names)
                        IN  /\ (now = nullptr \/ Get(_root, now).type # Get(before, q).type)
                                => /\ result.ret
                                   /\ \/ call.op = "removeFile" /\ target = names
                                      \/ call.op = "removeDirectory" /\ IsPrefix(target, names)
                            /\ (/\ now # nullptr
                                /\ Get(_root, now).type = Get(before, q).type
                                /\ Get(_root, now).contents # Get(before, q).contents)
                                => call.op = "write" /\ result.ret /\ target = names
                  /\ call.op \in {"read", "readDirectory", "removeSymbolicLink"}
                        => _root = before
        /\ Idle =>
              \A p \in Paths :
                 /\ Memory_exists(_root, p).root = _root
                 /\ Memory_isFile(_root, p).root = _root
                 /\ Memory_isDirectory(_root, p).root = _root
                 /\ Memory_isSymbolicLink(_root, p).root = _root
                 /\ Memory_readSymbolicLink(_root, p).root = _root
                 /\ Memory_resolvePath(_root, p).root = _root
                 /\ \A t \in Targets : Memory_writeSymbolicLink(_root, t, p).root = _root

\* a directory and the entry in it were removed and another entry stayed
C23_Witness ==
    /\ backend = "memory"
    /\ Returned("removeDirectory") /\ result.ret
    /\ Size(before) = 4
    /\ Size(_root) = 2
    /\ _root.children[1].type = "File"
    /\ _root.children[1].contents = <<2, 3>>

\* the names of an entry's children, in the order of its vector
ChildNames(entry) == [i \in 1 .. Len(entry.children) |-> entry.children[i].name]

\* now holds, in their order in was, the names of was that it kept, and after
\* them the names it did not have
KeptThenNew(was, now) ==
    LET stays(n) == \E i \in 1 .. Len(now) : now[i] = n
        kept == SelectSeq(was, stays)
    IN  /\ Len(kept) <= Len(now)
        /\ SubSeq(now, 1, Len(kept)) = kept
        /\ \A i \in (Len(kept) + 1) .. Len(now) : \A j \in 1 .. Len(was) : was[j] # now[i]

(***************************************************************************)
(* C24: in the in-memory backend readDirectory(p, recursive=false, cb)     *)
(* reports the children of p in insertion order: entries appear in the     *)
(* order in which they were created, removing an entry keeps the relative  *)
(* order of the remaining ones, and an entry that is removed and created   *)
(* again is reported last.  Stated operation by operation: every           *)
(* directory that an operation leaves in place holds its earlier children  *)
(* in their earlier order, followed by the ones the operation created, and *)
(* readDirectory reports the children in the order of the vector.          *)
(***************************************************************************)
C24_InsertionOrder ==
    (backend = "memory" /\ call # NoCall /\ result.status = "returned") =>
        /\ \A d \in {<<>>} \cup Under(before, TRUE) :
              LET now == Locate(_root, <<>>, NamesTo(before, d))
              IN  (/\ Get(before, d).type = "Directory"
                   /\ now # nullptr
                   /\ Get(_root, now).type = "Directory")
                  => KeptThenNew(ChildNames(Get(before, d)), ChildNames(Get(_root, now)))
        /\ (call.op = "readDirectory" /\ ~call.recursive /\ result.ret) =>
              result.out = ChildNames(Get(_root, Locate(_root, <<>>,
                                                        Resolve(Split(call.path), <<>>))))

\* the root's children were reported with b, the older one, before a
C24_Witness ==
    /\ backend = "memory"
    /\ Returned("readDirectory") /\ ~call.recursive /\ result.ret
    /\ call.path = <<Slash>>
    /\ result.out = << <<"b">>, <<"a">> >>

\* the paths walked for C25: those of the calls and two relative ones
Walked == Paths \cup { <<"a">>, <<"a", "/", "a">> }

\* the outcomes on a tree of every path-walking operation but the recursive
\* createDirectory, over the arguments of the calls
Walks(root, p) ==
    { Memory_exists(root, p), Memory_isFile(root, p), Memory_isDirectory(root, p),
      Memory_createFile(root, p), Memory_removeFile(root, p),
      Memory_createDirectory(root, p, FALSE) }
    \cup { Memory_readDirectory(root, p, r) : r \in BOOLEAN }
    \cup { Memory_removeDirectory(root, p, r) : r \in BOOLEAN }
    \cup { Memory_write(root, c, p) : c \in Contents }
    \cup { Memory_read(root, p, x[1], x[2], x[3]) :
             x \in (0 .. MaxArg) \X ({nullopt} \cup (0 .. MaxArg)) \X ({-1} \cup Garbage) }

Refused(root, o) == o.status = "returned" /\ ~o.ret /\ o.root = root

(***************************************************************************)
(* C25: in the in-memory backend every path-walking operation (exists,     *)
(* isFile, isDirectory, createFile, read, write, removeFile,               *)
(* createDirectory, readDirectory, removeDirectory) returns false and      *)
(* leaves the tree unchanged when given a non-empty path that does not     *)
(* begin with '/', or a path one of whose intermediate components is an    *)
(* existing non-directory; apart from createDirectory with recursive=true, *)
(* the same holds when an intermediate component is absent.  Stated of    *)
(* every call made, and of every operation on every tree the driver can    *)
(* call it on, the relative paths included.                                *)
(***************************************************************************)
C25_BlockedWalkFails ==
    backend = "memory" =>
        /\ (call.op \in {"createFile", "read", "write", "removeFile", "createDirectory",
                          "readDirectory", "removeDirectory"}) =>
              LET names == Resolve(Split(call.path), <<>>)
                  throughFile == \E k \in 1 .. (Len(names) - 1) :
                                     PrefixType(before, names, k) = "File"
                  throughAbsent == \E k \in 1 .. (Len(names) - 1) :
                                       PrefixType(before, names, k) = "absent"
              IN  (\/ throughFile
                   \/ throughAbsent /\ ~(call.op = "createDirectory" /\ call.recursive))
                  => (result.status = "returned" /\ ~result.ret /\ _root = before)
        /\ Idle =>
              \A p \in Walked :
                  LET names == Resolve(Split(p), <<>>)
                      relative == p[1] # Slash
                      throughFile == \E k \in 1 .. (Len(names) - 1) :
                                         PrefixType(_root, names, k) = "File"
                      throughAbsent == \E k \in 1 .. (Len(names) - 1) :
                                           PrefixType(_root, names, k) = "absent"
                  IN  /\ (relative \/ throughFile \/ throughAbsent) =>
                            \A o \in Walks(_root, p) : Refused(_root, o)
                      /\ (relative \/ throughFile) =>
                            Refused(_root, Memory_createDirectory(_root, p, TRUE))

\* createFile was refused below a regular file
C25_Witness ==
    /\ backend = "memory"
    /\ Returned("createFile") /\ ~result.ret
    /\ Len(Resolve(Split(call.path), <<>>)) = 2
    /\ PrefixType(_root, Resolve(Split(call.path), <<>>), 1) = "File"
    /\ _root = before

(***************************************************************************)
(* The methods of DefaultFilesystem that open a FILE* or a DIR*, followed  *)
(* from one host call to the next.  The host may refuse any call made to   *)
(* it; handles records each handle opened since the driver's call and how  *)
(* often it was closed.  What ends a call other than a return (an          *)
(* exception from the allocation of read's vector) is not followed.        *)
(***************************************************************************)
Handle(kind) == [kind |-> kind, closes |-> 0]

\* fclose(fp) or closedir(dp) on the handle numbered i
Closed(hs, i) == [hs EXCEPT ![i].closes = @ + 1]

\* an activation: the method, where it stands, the handle it holds (0: none),
\* and the locals of the process lambda
Frame(fn, pc, h) ==
    [fn |-> fn, pc |-> pc, h |-> h, size |-> 0, absolute |-> <<>>, relative |-> None,
     names |-> <<>>, ok |-> TRUE]

Top == frames[Len(frames)]

Stands(fn, pc) == frames # <<>> /\ Top.fn = fn /\ Top.pc = pc

Running(out) == [status |-> "running", ret |-> FALSE, out |-> out]

Quiet == call = NoCall /\ frames = <<>>

\* what these steps leave alone
aside == <<backend, _root, current, create, before, umask, threads, made>>

\* the trees the host starts with
HandleHosts ==
    { HostDirectory(<<Slash>>, <<>>),
      HostDirectory(<<Slash>>, << HostFile(<<"a">>, <<2, 3>>), HostDirectory(<<"b">>, <<>>) >>),
      HostDirectory(<<Slash>>,
          << HostDirectory(<<"a">>, << HostDirectory(<<"a">>, <<>>),
                                        HostDirectory(<<"b">>, <<>>) >>) >>) }

InitHandles ==
    /\ backend = "default"
    /\ _root = Directory(<<Slash>>, <<>>)
    /\ host \in HandleHosts
    /\ call = NoCall
    /\ result = NoResult
    /\ current = <<>>
    /\ create = <<>>
    /\ before = host
    /\ handles = <<>>
    /\ frames = <<>>
    /\ umask = 0
    /\ threads = <<>>
    /\ made = <<>>

\* the method returns v from its only activation
MethodReturns(v, out, hs, h) ==
    /\ frames' = <<>>
    /\ result' = [status |-> "returned", ret |-> v, out |-> out]
    /\ handles' = hs
    /\ host' = h

\* the step moves on inside the activation on top
Goes(pc) ==
    /\ frames' = [frames EXCEPT ![Len(frames)].pc = pc]
    /\ UNCHANGED <<host, handles, result>>

\* createFile up to its fopen
CreateFileOpen ==
    \E path \in Paths, slot \in Slots, ok \in BOOLEAN :
        LET fp == creat(host, path, slot, MaxHops)
        IN  /\ Quiet
            /\ Size(fp.h) <= MaxEntries + 1
            /\ call' = Call("createFile", path)
            /\ IF Default_isWritable(host, path) THEN MethodReturns(TRUE, <<>>, handles, host)
               ELSE IF ~fp.ok \/ ~ok THEN MethodReturns(FALSE, <<>>, handles, host)
               ELSE /\ host' = fp.h
                    /\ handles' = Append(handles, Handle("FILE"))
                    /\ frames' = <<Frame("createFile", "fclose", Len(handles) + 1)>>
                    /\ result' = Running(<<>>)
            /\ UNCHANGED aside

\* its fclose and return
CreateFileClose ==
    /\ Stands("createFile", "fclose")
    /\ MethodReturns(TRUE, <<>>, Closed(handles, Top.h), host)
    /\ UNCHANGED <<call, aside>>

\* the file the FILE* of read or write is open on
Target == Namei(host, call.path, TRUE, MaxHops).entry

\* a failed step of read or write: fclose(fp); return false
FailsClosed ==
    MethodReturns(FALSE, <<>>, Closed(handles, Top.h), host)

\* read up to its fopen
ReadOpen ==
    \E path \in Paths, offset \in 0 .. MaxArg, length \in {nullopt} \cup (0 .. MaxArg),
       ok \in BOOLEAN :
        /\ Quiet
        /\ call' = [Call("read", path) EXCEPT !.offset = offset, !.length = length]
        /\ IF Namei(host, path, TRUE, MaxHops).entry = nullptr \/ ~ok
           THEN MethodReturns(FALSE, <<>>, handles, host)
           ELSE /\ handles' = Append(handles, Handle("FILE"))
                /\ frames' = <<Frame("read", "fseek", Len(handles) + 1)>>
                /\ result' = Running(<<>>)
                /\ UNCHANGED host
        /\ UNCHANGED aside

\* fseek(fp, 0, SEEK_END)
ReadSeekEnd ==
    \E ok \in BOOLEAN :
        /\ Stands("read", "fseek")
        /\ IF ok THEN Goes("ftell") ELSE FailsClosed
        /\ UNCHANGED <<call, aside>>

\* size = ftell(fp)
ReadTell ==
    \E ok \in BOOLEAN :
        /\ Stands("read", "ftell")
        /\ IF ok
           THEN /\ frames' = [frames EXCEPT ![Len(frames)].pc = "length",
                                            ![Len(frames)].size = Len(Get(host, Target).contents)]
                /\ UNCHANGED <<host, handles, result>>
           ELSE FailsClosed
        /\ UNCHANGED <<call, aside>>

\* if (length) { if (offset + *length > size) ...; size = *length; }
ReadLength ==
    /\ Stands("read", "length")
    /\ IF call.length = nullopt THEN Goes("seek")
       ELSE IF call.offset + call.length > Top.size THEN FailsClosed
       ELSE /\ frames' = [frames EXCEPT ![Len(frames)].pc = "seek",
                                        ![Len(frames)].size = call.length]
            /\ UNCHANGED <<host, handles, result>>
    /\ UNCHANGED <<call, aside>>

\* fseek(fp, offset, SEEK_SET)
ReadSeekSet ==
    \E ok \in BOOLEAN :
        /\ Stands("read", "seek")
        /\ IF ok THEN Goes("fread") ELSE FailsClosed
        /\ UNCHANGED <<call, aside>>

\* the fread, which comes short when fewer than size bytes follow the offset or
\* the host fails, and the fclose and return after it
ReadData ==
    \E ok \in BOOLEAN :
        LET data == Get(host, Target).contents
            short == call.offset + Top.size > Len(data) \/ ~ok
        IN  /\ Stands("read", "fread")
            /\ IF Top.size > 0 /\ short THEN FailsClosed
               ELSE MethodReturns(TRUE, SubSeq(data, call.offset + 1, call.offset + Top.size),
                                  Closed(handles, Top.h), host)
            /\ UNCHANGED <<call, aside>>

\* write up to its fopen
WriteOpen ==
    \E path \in Paths, contents \in Contents, slot \in Slots, ok \in BOOLEAN :
        LET fp == creat(host, path, slot, MaxHops)
        IN  /\ Quiet
            /\ Size(fp.h) <= MaxEntries + 1
            /\ call' = [Call("write", path) EXCEPT !.contents = contents]
            /\ IF ~fp.ok \/ ~ok THEN MethodReturns(FALSE, <<>>, handles, host)
               ELSE /\ host' = fp.h
                    /\ handles' = Append(handles, Handle("FILE"))
                    /\ frames' = <<Frame("write", "fwrite", Len(handles) + 1)>>
                    /\ result' = Running(<<>>)
            /\ UNCHANGED aside

\* the fwrite, if there is anything to write, and the fclose and return after it
WriteData ==
    \E ok \in BOOLEAN :
        /\ Stands("write", "fwrite")
        /\ IF call.contents # <<>> /\ ~ok THEN FailsClosed
           ELSE MethodReturns(TRUE, <<>>, Closed(handles, Top.h),
                              Put(host, Target, [Get(host, Target) EXCEPT
                                                    !.contents = call.contents]))
        /\ UNCHANGED <<call, aside>>

\* the process lambda returns v: to readDirectory's caller from the outermost
\* activation, to the activation that descended otherwise
ProcessReturns(v, hs) ==
    /\ handles' = hs
    /\ IF Len(frames) = 1
       THEN /\ frames' = <<>>
            /\ result' = [status |-> "returned", ret |-> v, out |-> result.out]
       ELSE /\ frames' = SubSeq(frames, 1, Len(frames) - 2)
                          \o <<[frames[Len(frames) - 1] EXCEPT !.pc = "back", !.ok = v]>>
            /\ UNCHANGED result

\* readDirectory calls process(path, ext::nullopt)
ReadDirectoryCall ==
    \E path \in Paths, recursive \in BOOLEAN :
        /\ Quiet
        /\ call' = [Call("readDirectory", path) EXCEPT !.recursive = recursive]
        /\ frames' = <<[Frame("process", "opendir", 0) EXCEPT !.absolute = path]>>
        /\ result' = Running(<<>>)
        /\ UNCHANGED <<host, handles, aside>>

\* dp = opendir(absolute); if (dp == NULL) return false
ProcessOpendir ==
    \E ok \in BOOLEAN :
        /\ Stands("process", "opendir")
        /\ IF opendir(host, Top.absolute) = nullptr \/ ~ok
           THEN ProcessReturns(FALSE, handles)
           ELSE /\ handles' = Append(handles, Handle("DIR"))
                /\ frames' = [frames EXCEPT ![Len(frames)].pc = "report",
                                            ![Len(frames)].h = Len(handles) + 1]
                /\ UNCHANGED result
        /\ UNCHANGED <<host, call, aside>>

\* the first while loop; then the rewinddir, or the closedir and return
ProcessReport ==
    LET names == readdir(host, opendir(host, Top.absolute))
        out == result.out \o [i \in 1 .. Len(names) |-> Relative(Top.relative, names[i])]
    IN  /\ Stands("process", "report")
        /\ IF call.recursive
           THEN /\ frames' = [frames EXCEPT ![Len(frames)].pc = "loop",
                                            ![Len(frames)].names = names]
                /\ result' = [result EXCEPT !.out = out]
                /\ UNCHANGED handles
           ELSE /\ frames' = <<>>
                /\ result' = [status |-> "returned", ret |-> TRUE, out |-> out]
                /\ handles' = Closed(handles, Top.h)
        /\ UNCHANGED <<host, call, aside>>

\* one turn of the second while loop, up to the call of process in it; after
\* the last turn the closedir and return
ProcessLoop ==
    /\ Stands("process", "loop")
    /\ IF Top.names = <<>> THEN ProcessReturns(TRUE, Closed(handles, Top.h))
       ELSE LET full == Top.absolute \o <<Slash>> \o Head(Top.names)
                waits == [Top EXCEPT !.names = Tail(@), !.pc = "descended"]
                skips == [Top EXCEPT !.names = Tail(@)]
                inner == [Frame("process", "opendir", 0) EXCEPT
                             !.absolute = full,
                             !.relative = Some(Relative(Top.relative, Head(Top.names)))]
            IN  /\ frames' = IF Default_type(host, full) = "Directory"
                             THEN SubSeq(frames, 1, Len(frames) - 1) \o <<waits, inner>>
                             ELSE SubSeq(frames, 1, Len(frames) - 1) \o <<skips>>
                /\ UNCHANGED <<handles, result>>
    /\ UNCHANGED <<host, call, aside>>

\* a descent that loses its closedir when process returned false
ProcessBack_leaking ==
    /\ Stands("process", "back")
    /\ IF ~Top.ok THEN ProcessReturns(FALSE, handles)
       ELSE /\ frames' = [frames EXCEPT ![Len(frames)].pc = "loop"]
            /\ UNCHANGED <<handles, result>>
    /\ UNCHANGED <<host, call, aside>>

\* if (!process(full, path)) { closedir(dp); return false; }
ProcessBack ==
    /\ Stands("process", "back")
    /\ IF ~Top.ok THEN ProcessReturns(FALSE, Closed(handles, Top.h))
       ELSE /\ frames' = [frames EXCEPT ![Len(frames)].pc = "loop"]
            /\ UNCHANGED <<handles, result>>
    /\ UNCHANGED <<host, call, aside>>

\* the driver has taken the result; the handles of the call are forgotten
HandlesReturn ==
    /\ call # NoCall
    /\ result.status = "returned"
    /\ call' = NoCall
    /\ result' = NoResult
    /\ handles' = <<>>
    /\ UNCHANGED <<host, frames, aside>>

NextHandles ==
    \/ CreateFileOpen
    \/ CreateFileClose
    \/ ReadOpen
    \/ ReadSeekEnd
    \/ ReadTell
    \/ ReadLength
    \/ ReadSeekSet
    \/ ReadData
    \/ WriteOpen
    \/ WriteData
    \/ ReadDirectoryCall
    \/ ProcessOpendir
    \/ ProcessReport
    \/ ProcessLoop
    \/ ProcessBack
    \/ HandlesReturn

HandleSpec == InitHandles /\ [][NextHandles]_vars

(***************************************************************************)
(* C26: in the physical backend every directory stream opened by           *)
(* readDirectory and every file handle opened by createFile, read or write *)
(* is closed exactly once before the operation returns, on the success     *)
(* path and on every failure path (a failed seek, a short read or write, a *)
(* failed descent into a subdirectory); no handle is left open and none is *)
(* closed twice.  While the call runs, the handles still open are the ones *)
(* its activations hold.                                                   *)
(***************************************************************************)
C26_HandlesClosedOnce ==
    /\ \A i \in 1 .. Len(handles) : handles[i].closes <= 1
    /\ { i \in 1 .. Len(handles) : handles[i].closes = 0 }
          = { frames[k].h : k \in 1 .. Len(frames) } \ {0}
    /\ result.status = "returned" =>
          /\ frames = <<>>
          /\ \A i \in 1 .. Len(handles) : handles[i].closes = 1

\* a recursive enumeration gave up in its second descent, two streams opened
C26_Witness ==
    /\ Returned("readDirectory") /\ call.recursive /\ ~result.ret
    /\ Len(handles) = 2
    /\ \A i \in 1 .. 2 : handles[i].kind = "DIR" /\ handles[i].closes = 1
    /\ result.out # <<>>

\* ---------------------------------------------------------------------------
\* The process umask under concurrent callers of the physical createDirectory.
\* Each thread runs createDirectory(path, false) statement by statement; the
\* umask belongs to the process and is shared by all of them. The recursive
\* branch makes its mkdir calls with the same mode, after the same two umask
\* calls, and is not followed here.
\* ---------------------------------------------------------------------------

\* S_IRWXU | S_IRWXG | S_IRWXO
S_IRWXUGO == 511

\* the masks the process may start with: 0, 022, 077
Masks == {0, 18, 63}

\* a & b on the permission bits
RECURSIVE BitAnd(_, _)
BitAnd(a, b) ==
    IF a = 0 \/ b = 0 THEN 0
    ELSE (a % 2) * (b % 2) + 2 * BitAnd(a \div 2, b \div 2)

\* (S_IRWXU | S_IRWXG | S_IRWXO) & ~mask
ModeFor(mask) == BitAnd(S_IRWXUGO, S_IRWXUGO - BitAnd(mask, S_IRWXUGO))

\* a thread outside createDirectory; entered is the umask its last call found,
\* raced whether one of its calls had its two umask calls interleaved with
\* another thread's
Thread(mask) ==
    [pc |-> "idle", path |-> <<>>, mask |-> 0, mode |-> 0, ret |-> FALSE,
     entered |-> mask, raced |-> FALSE]

\* what these steps leave alone
apart == <<backend, _root, call, result, current, create, before, handles, frames>>

InitUmask ==
    /\ backend = "default"
    /\ _root = Directory(<<Slash>>, <<>>)
    /\ host = HostDirectory(<<Slash>>, <<>>)
    /\ call = NoCall
    /\ result = NoResult
    /\ current = <<>>
    /\ create = <<>>
    /\ before = host
    /\ handles = <<>>
    /\ frames = <<>>
    /\ umask \in Masks
    /\ threads \in { <<Thread(umask)>>, <<Thread(umask), Thread(umask)>> }
    /\ made = <<>>

\* the paths the threads ask for
Asked == { p \in Paths : Len(p) <= 4 }

\* threads between umask(0) and umask(mask)
Between == { u \in 1 .. Len(threads) : threads[u].pc = "restore" }

\* mode_t mask = ::umask(0);
UmaskRead(t) ==
    /\ threads[t].pc = "idle"
    /\ Size(host) <= MaxEntries
    /\ \E path \in Asked :
          threads' = [u \in 1 .. Len(threads) |->
              IF u = t
              THEN [threads[t] EXCEPT !.pc = "restore", !.path = path, !.mask = umask,
                                      !.entered = umask,
                                      !.raced = @ \/ Between # {}]
              ELSE [threads[u] EXCEPT !.raced = @ \/ u \in Between]]
    /\ umask' = 0
    /\ UNCHANGED <<host, made, apart>>

\* the restore left out: the umask stays 0
UmaskRestore_skipped(t) ==
    /\ threads[t].pc = "restore"
    /\ threads' = [threads EXCEPT ![t].pc = "mkdir",
                                  ![t].mode = ModeFor(threads[t].mask)]
    /\ UNCHANGED <<umask, host, made, apart>>

\* ::umask(mask); mode_t mode = (S_IRWXU | S_IRWXG | S_IRWXO) & ~mask;
UmaskRestore(t) ==
    /\ threads[t].pc = "restore"
    /\ umask' = threads[t].mask
    /\ threads' = [threads EXCEPT ![t].pc = "mkdir",
                                  ![t].mode = ModeFor(threads[t].mask)]
    /\ UNCHANGED <<host, made, apart>>

\* ::mkdir(path.c_str(), mode), and the return: the host makes the directory
\* with mode & ~umask, the umask being the process's at that moment
MakeDirectory(t) ==
    /\ threads[t].pc = "mkdir"
    /\ \E slot \in Slots :
          LET s == mkdir(host, threads[t].path, slot)
          IN  /\ host' = s.h
              /\ made' = IF s.ok
                         THEN Append(made, [path |-> threads[t].path,
                                            mode |-> BitAnd(threads[t].mode,
                                                            S_IRWXUGO - umask),
                                            entered |-> threads[t].entered])
                         ELSE made
              /\ threads' = [threads EXCEPT ![t].pc = "idle", ![t].ret = s.ok,
                                            ![t].path = <<>>, ![t].mask = 0,
                                            ![t].mode = 0]
    /\ UNCHANGED <<umask, apart>>

NextUmask ==
    \/ \E t \in 1 .. Len(threads) : UmaskRead(t)
    \/ \E t \in 1 .. Len(threads) : UmaskRestore(t)
    \/ \E t \in 1 .. Len(threads) : MakeDirectory(t)

UmaskSpec == InitUmask /\ [][NextUmask]_vars

\* C27: as long as no call had its two umask calls interleaved with another
\* thread's (a single thread never has), whenever no thread stands between the
\* two the process umask is the one every call found on entry, and every
\* directory made has mode 0777 & ~umask
C27_UmaskRoundTrip ==
    (\A t \in 1 .. Len(threads) : ~threads[t].raced) =>
        /\ Between = {} => \A t \in 1 .. Len(threads) : umask = threads[t].entered
        /\ \A i \in 1 .. Len(made) :
              /\ made[i].mode = ModeFor(made[i].entered)
              /\ Between = {} => made[i].entered = umask

\* two threads ran createDirectory at once, both have returned, a directory was
\* made under a umask that was not 0, and the process umask is no longer that one
C27_Witness ==
    /\ Len(threads) = 2
    /\ \A t \in 1 .. 2 : threads[t].pc = "idle" /\ threads[t].raced
    /\ made # <<>>
    /\ made[1].entered # 0
    /\ made[1].mode = ModeFor(made[1].entered)
    /\ umask # made[1].entered

====
